---- MODULE Spec2Model ----
(***************************************************************************)
(* Order-status live-update pipeline of sarawak-food-court:                *)
(*   NotificationManager, ProgressTracker and OrderSubscription of         *)
(*   js/qr-code-manager.js, and the service worker, as one state machine.  *)
(*                                                                         *)
(* A notification card is identified by the order of its creation          *)
(* (1, 2, ...).  Timers are the callbacks handed to setTimeout; a pending  *)
(* timer may fire between any two handlers.  Progress widths are kept in   *)
(* thousandths of a percent, truncated, since the source computes them in  *)
(* floating point ((index / 3) * 100).                                     *)
(*                                                                         *)
(* Of show, the 10 ms timer that adds the CSS class 'show' touches none of   *)
(* the state kept here.                                                     *)
(*                                                                         *)
(* SpecQueue   the NotificationManager under its callers and its timers     *)
(* SpecQueueLive  the same with its timers firing, for fewer cards          *)
(* SpecTracker the ProgressTracker under the screen's calls (the cards it   *)
(*             creates stay up: their timers are left pending)              *)
(* SpecSub     the OrderSubscription subscribed once, the backend's events  *)
(*             and the tracker they drive                                   *)
(* SpecResub   subscribe and unsubscribe called repeatedly                  *)
(* SpecNotify  the tracker's calls of show under the browser's permission,  *)
(*             worker registration and audio                                *)
(* SpecCache   the service worker's install, activate, fetch and sync       *)
(*             listeners over the origin's caches                           *)
(* SpecPush    the service worker's push listener                           *)
(* SpecBridge  the service worker's message and notificationclick           *)
(*             listeners, with its install and activation                   *)
(* Spec        all of the handlers together                                 *)
(***************************************************************************)
EXTENDS Integers, Sequences, FiniteSets, TLC

VARIABLES
    \* NotificationManager
    cards,              \* every card created by show, by id: [status, title, message]
    attached,           \* ids of the cards that are children of this.container
    hidden,             \* ids of the cards carrying the CSS class 'hide'
    notificationQueue,  \* this.notificationQueue, a sequence of card ids
    autoTimers,         \* ids whose auto-dismiss timeout (show) is pending
    removalTimers,      \* pending 400 ms callbacks of dismiss, in scheduling order
    fault,              \* TRUE once a handler or timer callback has thrown
    lastNotify,         \* the sound and the browser notification of the last show
    \* the page's browser
    permission,         \* Notification.permission
    serviceWorkerRegistration,  \* this.serviceWorkerRegistration: "null", or registered
                        \* with its worker still "installing" or with an "active" one
    audio,              \* TRUE iff an AudioContext can be created and played
    \* ProgressTracker
    container,          \* TRUE iff getElementById found the tracker's container
    currentStep,        \* this.currentStep
    rendered,           \* what render() last wrote into the container, or NoRender
    \* OrderSubscription and the realtime client it uses
    onUpdate,           \* this.onUpdate: "null" or "callback"
    subscription,       \* this.subscription: 0 (null) or a channel id
    channels,           \* the channels created so far, by id: [kind, state]
    releases,           \* per channel id, the number of removeChannel calls on it
    received,           \* the change events received on open channels, in order
    calls,              \* the arguments the registered callback was called with, in order
    \* history
    fed,                \* the statuses passed to updateStatus by the screen, in order
    widthLog,           \* getProgressWidth() after each of those calls
    lastOp,             \* the handler or callback that ran last
    \* the service worker
    worker,             \* the worker's state: installing, installed, activated, redundant
    cacheStorage,       \* the origin's caches, by name: [present, keys]
    pendingPuts,        \* the requests whose cache.put has not settled
    fetchedOk,          \* the requests answered with the response of the network
    written,            \* the requests whose cache.put has stored an entry
    pendingErrors,      \* the pending puts whose response is an error response
    storedErrors,       \* the urls whose cache entry holds an error response
    pushEvents,         \* event.data of the push events received, in order
    shown,              \* the notifications the push listener has shown, in order
    visible,            \* the system notifications on display: [via, note]
    clients,            \* the origin's open windows, in matchAll order: [url, controller]
    latest,             \* per orderId, the message of its last ORDER_UPDATE ("none": none yet)
    lastClick,          \* what the last notificationclick was and did
    lastSync,           \* what the last sync event was and did
    lastSw              \* the listener of the worker that ran last

nmVars      == <<cards, attached, hidden, notificationQueue, autoTimers, removalTimers, fault,
                 lastNotify>>
envVars     == <<permission, serviceWorkerRegistration, audio>>
trackerVars == <<container, currentStep, rendered>>
subVars     == <<onUpdate, subscription, channels, releases>>
evVars      == <<received, calls>>
histVars    == <<fed, widthLog>>
pageVars    == <<nmVars, envVars, trackerVars, subVars, evVars, histVars, lastOp>>
cacheVars   == <<worker, cacheStorage, pendingPuts, fetchedOk, written, pendingErrors,
                 storedErrors>>
pushVars    == <<pushEvents, shown>>
bridgeVars  == <<visible, clients, latest, lastClick>>
swVars      == <<cacheVars, pushVars, bridgeVars, lastSync, lastSw>>
vars        == <<pageVars, swVars, envVars>>

-----------------------------------------------------------------------------
(* Bounds of the model *)

MaxShown == 4            \* cards created in one behaviour
MaxPendingRemovals == 2  \* pending dismiss callbacks beyond which nobody clicks close
MaxFed == 4              \* updateStatus calls recorded in fed
MaxSubscribes == 2       \* subscribe calls in one behaviour
MaxReleases == 2         \* removeChannel calls on one channel
MaxEventShows == 2       \* cards created by backend events in one behaviour
MaxEvents == 3           \* change events received in one behaviour
MaxPushes == 3           \* push events received in one behaviour
MaxLiveShown == 3        \* cards created in one behaviour checked for liveness
MaxLivePendingRemovals == 1  \* pending dismiss callbacks beyond which nobody clicks
                         \* close, in a behaviour checked for liveness

-----------------------------------------------------------------------------
(* Values *)

OrderStatus == {"pending", "preparing", "ready", "completed", "cancelled"}

\* What a caller or a backend row can hand over as a status: the five values of
\* the orders table, a value outside them, and undefined (an order_items row
\* has no status column).
StatusInputs == OrderStatus \cup {"refunded", "undefined"}

\* The container before the first render(): nothing drawn.
NoRender == [drawn |-> FALSE, width |-> 0, classes |-> <<>>]

\* lastOp: the handler that ran, the status it was given, the card or channel it
\* was about, this.currentStep before it ran, and what it returned.
OpR(name, status, item, prev, result) ==
    [op |-> name, status |-> status, item |-> item, prev |-> prev, result |-> result]

Op(name, status, item, prev) == OpR(name, status, item, prev, "undefined")

-----------------------------------------------------------------------------
(* NotificationManager *)

maxNotifications == 3

\* Array.prototype.indexOf: zero-based, -1 when absent.
IndexOf(seq, x) ==
    IF \E i \in 1..Len(seq) : seq[i] = x
    THEN (CHOOSE i \in 1..Len(seq) : seq[i] = x /\ \A j \in 1..(i - 1) : seq[j] # x) - 1
    ELSE -1

\* Array.prototype.splice(index, 1); a negative index counts from the end.
Splice1(seq, index) ==
    LET at == IF index < 0 THEN (IF Len(seq) + index < 0 THEN 0 ELSE Len(seq) + index)
              ELSE index
    IN  IF at >= Len(seq) THEN seq
        ELSE SubSeq(seq, 1, at) \o SubSeq(seq, at + 2, Len(seq))

getStatusIcon(status) ==
    CASE status = "pending"   -> "clock"
      [] status = "preparing" -> "cook"
      [] status = "ready"     -> "check"
      [] status = "completed" -> "party"
      [] status = "cancelled" -> "cross"
      [] OTHER                -> "bell"

createNotificationElement(status, title, message) ==
    [status |-> status, icon |-> getStatusIcon(status), title |-> title, message |-> message]

\* dismiss(notification): add class 'hide', schedule the removal callback.
dismissHidden(h, n)  == h \cup {n}
\* (a dismiss that hides the card and schedules nothing)
dismissTimersMut(t, n) == t
dismissTimers(t, n)  == Append(t, n)

\* show, "Manage queue": the queue after push, and the card to dismiss (0: none).
QueueOverflow(q) == Len(q) > maxNotifications

Evicted(q) == IF QueueOverflow(q) THEN Head(q) ELSE 0

\* (pop() in place of shift())
AfterShiftMut(q) == IF QueueOverflow(q) THEN SubSeq(q, 1, Len(q) - 1) ELSE q
AfterShift(q) == IF QueueOverflow(q) THEN Tail(q) ELSE q

\* (a playNotificationSound without its try/catch)
playNotificationSoundMut(available) == IF available THEN "played" ELSE "thrown"
\* playNotificationSound(status): whatever the audio calls throw is caught
playNotificationSound(available) == IF available THEN "played" ELSE "caught"

\* What showBrowserNotification did: the outcome of the worker's
\* showNotification ("none": not called), the number of new Notification(...)
\* calls, and whether the promise of the async function was rejected.
BrowserNotification(agent, foreground, unhandled) ==
    [agent |-> agent, foreground |-> foreground, unhandled |-> unhandled]

\* (the return after the worker's notification left out)
showBrowserNotificationMut(perm, reg, agentOk, ctorOk) ==
    IF perm # "granted" THEN BrowserNotification("none", 0, FALSE)
    ELSE BrowserNotification(IF reg # "active" THEN "none"
                             ELSE IF agentOk THEN "shown" ELSE "rejected",
                             1, ~ctorOk)
\* showBrowserNotification(title, message), an async function nobody awaits.
\* agentOk: serviceWorkerRegistration.showNotification resolves; ctorOk: new
\* Notification(...) does not throw.
showBrowserNotification(perm, reg, agentOk, ctorOk) ==
    IF perm # "granted" THEN BrowserNotification("none", 0, FALSE)
    ELSE IF reg = "active" /\ agentOk THEN BrowserNotification("shown", 0, FALSE)
    ELSE BrowserNotification(IF reg = "active" THEN "rejected" ELSE "none", 1, ~ctorOk)

\* showBrowserNotification(title, message, orderId = null): show passes the
\* title and the message only, so data: { orderId } carries the default.
orderIdDefault == "null"

\* The last show: its sound, its browser notification and the orderId in the
\* data of the notification asked of the worker ("none": not asked).
Notified(sound, browser) ==
    [sound |-> sound, agent |-> browser.agent, foreground |-> browser.foreground,
     unhandled |-> browser.unhandled,
     orderId |-> IF browser.agent = "none" THEN "none" ELSE orderIdDefault]

\* show(options): the card is created and appended to the container, the sound
\* played and the browser notification asked for, the auto-dismiss timer set,
\* the card pushed on the queue and the queue trimmed.  A statement that throws
\* ends show there.
show(status, title, message) ==
    LET id     == Len(cards) + 1
        pushed == Append(notificationQueue, id)
        old    == Evicted(pushed)
        sound  == playNotificationSound(audio)
    IN  /\ cards' = Append(cards, createNotificationElement(status, title, message))
        /\ attached' = attached \cup {id}
        /\ IF sound = "thrown"
           THEN /\ fault' = TRUE
                /\ lastNotify' = Notified(sound, BrowserNotification("none", 0, FALSE))
                /\ UNCHANGED <<autoTimers, notificationQueue, hidden, removalTimers>>
           ELSE /\ \E agentOk \in BOOLEAN, ctorOk \in BOOLEAN :
                    lastNotify' = Notified(sound,
                        showBrowserNotification(permission, serviceWorkerRegistration,
                                                agentOk, ctorOk))
                /\ autoTimers' = autoTimers \cup {id}
                /\ notificationQueue' = AfterShift(pushed)
                /\ hidden' = IF old = 0 THEN hidden ELSE dismissHidden(hidden, old)
                /\ removalTimers' =
                    IF old = 0 THEN removalTimers ELSE dismissTimers(removalTimers, old)
                /\ fault' = fault

\* The callback dismiss hands to setTimeout (400 ms later).
HasParent(n) == n \in attached

RemoveChildFaults(n) == HasParent(n) /\ n \notin attached

\* (splice without the index > -1 test)
QueueWithoutMut(q, n) == Splice1(q, IndexOf(q, n))
QueueWithout(q, n) == IF IndexOf(q, n) > -1 THEN Splice1(q, IndexOf(q, n)) ELSE q

removalCallback(n) ==
    /\ attached' = attached \ {n}
    /\ fault' = (fault \/ RemoveChildFaults(n))
    /\ notificationQueue' = QueueWithout(notificationQueue, n)

-----------------------------------------------------------------------------
(* Handlers of the NotificationManager *)

\* notifyNewOrder(orderId, tableNumber): the hawker screen's caller of show.
notifyNewOrder ==
    /\ Len(cards) < MaxShown
    /\ show("pending", "New Order!", "New order from Table")
    /\ lastOp' = Op("show", "pending", Len(cards) + 1, currentStep)
    /\ UNCHANGED <<trackerVars, subVars, evVars, histVars, swVars, envVars>>

\* A click on a card's close button, or a caller dismissing a card show returned.
Dismiss ==
    \E n \in 1..Len(cards) :
        /\ Len(removalTimers) < MaxPendingRemovals
        /\ hidden' = dismissHidden(hidden, n)
        /\ removalTimers' = dismissTimers(removalTimers, n)
        /\ lastOp' = Op("dismiss", "none", n, currentStep)
        /\ UNCHANGED <<cards, attached, notificationQueue, autoTimers, fault, lastNotify>>
        /\ UNCHANGED <<trackerVars, subVars, evVars, histVars, swVars, envVars>>

\* The auto-dismiss timeout of show fires: this.dismiss(notification).
AutoDismissTimer ==
    \E n \in autoTimers :
        /\ autoTimers' = autoTimers \ {n}
        /\ hidden' = dismissHidden(hidden, n)
        /\ removalTimers' = dismissTimers(removalTimers, n)
        /\ lastOp' = Op("autoDismiss", "none", n, currentStep)
        /\ UNCHANGED <<cards, attached, notificationQueue, fault, lastNotify>>
        /\ UNCHANGED <<trackerVars, subVars, evVars, histVars, swVars, envVars>>

\* The oldest pending removal callback of dismiss fires.
RemovalTimer ==
    /\ removalTimers # <<>>
    /\ removalCallback(Head(removalTimers))
    /\ removalTimers' = Tail(removalTimers)
    /\ lastOp' = Op("removal", IF HasParent(Head(removalTimers)) THEN "attached" ELSE "detached",
                     Head(removalTimers), currentStep)
    /\ UNCHANGED <<cards, hidden, autoTimers, lastNotify>>
    /\ UNCHANGED <<trackerVars, subVars, evVars, histVars, swVars, envVars>>

-----------------------------------------------------------------------------
(* ProgressTracker *)

steps == <<"pending", "preparing", "ready", "completed">>

\* (currentIndex / (this.steps.length - 1)) * 100, in thousandths of a percent,
\* truncated toward zero as the floating-point quotient is.
getProgressWidth(step) ==
    LET num == IndexOf(steps, step) * 100 * 1000
        den == Len(steps) - 1
    IN  IF num >= 0 THEN num \div den ELSE -((-num) \div den)

getStepClass(cur, step) ==
    LET currentIndex == IndexOf(steps, cur)
        stepIndex    == IndexOf(steps, step)
    IN  IF stepIndex < currentIndex THEN "completed"
        ELSE IF stepIndex = currentIndex THEN "active"
        ELSE ""

\* What render() writes into the container for a given current step.
render(cur) ==
    IF ~container THEN rendered
    ELSE [drawn   |-> TRUE,
          width   |-> getProgressWidth(cur),
          classes |-> [i \in 1..Len(steps) |-> getStepClass(cur, steps[i])]]

\* The messages table of updateStatus: messages[newStatus], or NoMessage.
NoMessage == [title |-> "undefined", message |-> "undefined"]

messages(status) ==
    CASE status = "pending"   -> [title   |-> "Order Confirmed!",
                                  message |-> "Your order has been placed successfully"]
      [] status = "preparing" -> [title   |-> "Cooking Started!",
                                  message |-> "Your food is being prepared with love"]
      [] status = "ready"     -> [title   |-> "Order Ready!",
                                  message |-> "Your delicious food is ready for pickup!"]
      [] status = "completed" -> [title   |-> "Enjoy Your Meal!",
                                  message |-> "Thank you for your order. Bon appetit!"]
      [] OTHER                -> NoMessage

\* The guard of updateStatus: this.currentStep === newStatus.
\* (the guard left out)
SameStepMut(cur, newStatus) == FALSE
\* (a forward-only guard: a status not ahead of the current one is ignored)
SameStepForwardMut(cur, newStatus) == IndexOf(steps, newStatus) <= IndexOf(steps, cur)
SameStep(cur, newStatus) == cur = newStatus

\* updateStatus(newStatus) would call show (window.notificationManager is set
\* when the script is loaded).
Notifies(cur, newStatus) ==
    ~SameStep(cur, newStatus) /\ messages(newStatus) # NoMessage

updateStatus(newStatus) ==
    IF SameStep(currentStep, newStatus)
    THEN UNCHANGED <<trackerVars, nmVars>>
    ELSE /\ currentStep' = newStatus
         /\ rendered' = render(newStatus)
         /\ container' = container
         /\ IF messages(newStatus) # NoMessage
            THEN show(newStatus, messages(newStatus).title, messages(newStatus).message)
            ELSE UNCHANGED nmVars

-----------------------------------------------------------------------------
(* Handlers of the ProgressTracker *)

\* The screen calls tracker.updateStatus(newStatus); the function returns
\* nothing (undefined) on every path.
UpdateStatus ==
    \E newStatus \in StatusInputs :
        /\ Len(fed) < MaxFed
        /\ Notifies(currentStep, newStatus) => Len(cards) < MaxShown
        /\ updateStatus(newStatus)
        /\ fed' = Append(fed, newStatus)
        /\ widthLog' = Append(widthLog, getProgressWidth(currentStep'))
        /\ lastOp' = Op("updateStatus", newStatus, 0, currentStep)
        /\ UNCHANGED <<subVars, evVars, swVars, envVars>>

\* The screen calls tracker.render().
Render ==
    /\ rendered' = render(currentStep)
    /\ lastOp' = Op("render", "none", 0, currentStep)
    /\ UNCHANGED <<container, currentStep, nmVars, subVars, evVars, histVars, swVars, envVars>>

-----------------------------------------------------------------------------
(* NotificationManager.init: the worker's registration and the permission *)

\* registerServiceWorker: navigator.serviceWorker.register resolves with the
\* registration, whose worker is still installing or already active; when it
\* rejects (or the browser has no serviceWorker) the field stays null.
RegisterServiceWorker ==
    /\ serviceWorkerRegistration = "null"
    /\ serviceWorkerRegistration' \in {"installing", "active"}
    /\ lastOp' = Op("registerServiceWorker", "none", 0, currentStep)
    /\ UNCHANGED <<permission, audio, nmVars, trackerVars, subVars, evVars, histVars, swVars>>

\* The registered worker becomes the registration's active worker.
RegistrationActive ==
    /\ serviceWorkerRegistration = "installing"
    /\ serviceWorkerRegistration' = "active"
    /\ lastOp' = Op("registrationActive", "none", 0, currentStep)
    /\ UNCHANGED <<permission, audio, nmVars, trackerVars, subVars, evVars, histVars, swVars>>

\* init: Notification.requestPermission() is answered by the user.
RequestPermission ==
    /\ permission = "default"
    /\ permission' \in {"granted", "denied"}
    /\ lastOp' = Op("requestPermission", "none", 0, currentStep)
    /\ UNCHANGED <<serviceWorkerRegistration, audio, nmVars, trackerVars, subVars, evVars,
                   histVars, swVars>>

-----------------------------------------------------------------------------
(* OrderSubscription, and the realtime client (this.supabase) it calls *)

\* supabase.channel(name).on(...).subscribe(...): a new channel that starts joining.
NewChannel(kind) == [kind |-> kind, state |-> "joining"]

\* supabase.removeChannel(channel): the channel is left and closed.
removeChannel(chs, id) == [chs EXCEPT ![id].state = "closed"]

\* subscribe(callback): the order channel is kept in this.subscription, the
\* order_items channel is kept nowhere.
subscribe ==
    /\ onUpdate' = "callback"
    /\ channels' = channels \o <<NewChannel("order"), NewChannel("items")>>
    /\ releases' = releases \o <<0, 0>>
    /\ subscription' = Len(channels) + 1

\* The channels unsubscribe() hands to removeChannel.
ReleasedByUnsubscribe == IF subscription # 0 THEN {subscription} ELSE {}

unsubscribe ==
    /\ channels' = [id \in 1..Len(channels) |->
                      IF id \in ReleasedByUnsubscribe
                      THEN removeChannel(channels, id)[id] ELSE channels[id]]
    /\ releases' = [id \in 1..Len(releases) |->
                      IF id \in ReleasedByUnsubscribe THEN releases[id] + 1 ELSE releases[id]]
    /\ UNCHANGED <<onUpdate, subscription>>

\* What the two handlers hand to this.onUpdate: payload.new (the whole orders
\* row) and { status: payload.new.status } (of an order_items row).
OrderArg(status) == [shape |-> "row", status |-> status]

\* (the row itself handed over, as the orders handler does)
ItemArgMut(status) == [shape |-> "row", status |-> status]
ItemArg(status) == [shape |-> "status", status |-> status]

\* The screen's callback: it is called with the argument, and the status of
\* what it is handed goes to the tracker (data flow: subscription ->
\* updateStatus).
Callback(arg) ==
    /\ calls' = Append(calls, arg)
    /\ updateStatus(arg.status)

\* Both postgres_changes handlers: if (this.onUpdate) this.onUpdate(...).
\* (a handler that skips a status the previous call already carried)
handleChangeMut(arg) ==
    IF onUpdate # "null" /\ (calls = <<>> \/ calls[Len(calls)].status # arg.status)
    THEN Callback(arg)
    ELSE UNCHANGED <<trackerVars, nmVars, calls>>
handleChange(arg) ==
    IF onUpdate # "null" THEN Callback(arg) ELSE UNCHANGED <<trackerVars, nmVars, calls>>

-----------------------------------------------------------------------------
(* Handlers of the OrderSubscription *)

\* Whether a change handler calls the registered callback.
Delivery == IF onUpdate # "null" THEN "called" ELSE "dropped"

Subscribe ==
    /\ Len(channels) < 2 * MaxSubscribes
    /\ subscribe
    /\ lastOp' = Op("subscribe", "none", Len(channels) + 1, currentStep)
    /\ UNCHANGED <<trackerVars, nmVars, evVars, histVars, swVars, envVars>>

Unsubscribe ==
    /\ subscription # 0 => releases[subscription] < MaxReleases
    /\ unsubscribe
    /\ lastOp' = Op("unsubscribe", "none", subscription, currentStep)
    /\ UNCHANGED <<trackerVars, nmVars, evVars, histVars, swVars, envVars>>

\* The state a channel is in once its status has been reported.
\* (a callback that subscribes the channel again when an error is reported)
statusCallbackMut(st) == IF st = "errored" THEN "joining" ELSE st
\* The callback handed to subscribe() only logs the status (the order_items
\* channel is subscribed without a callback).
statusCallback(st) == st

\* The realtime client reports a channel's status (SUBSCRIBED, CHANNEL_ERROR or
\* TIMED_OUT).
ChannelStatus ==
    \E id \in 1..Len(channels), st \in {"joined", "errored"} :
        /\ channels[id].state = "joining"
        /\ channels' = [channels EXCEPT ![id].state = statusCallback(st)]
        /\ lastOp' = Op("channelStatus", st, id, currentStep)
        /\ UNCHANGED <<onUpdate, subscription, releases, trackerVars, nmVars, evVars, histVars, swVars, envVars>>

\* An UPDATE of the order's row arrives on an open order channel: payload.new
\* is the row, whose status the orders table constrains to OrderStatus.
OrderEvent ==
    \E id \in 1..Len(channels), status \in OrderStatus :
        /\ channels[id].kind = "order"
        /\ channels[id].state = "joined"
        /\ Len(received) < MaxEvents
        /\ (onUpdate # "null" /\ Notifies(currentStep, status)) => Len(cards) < MaxEventShows
        /\ received' = Append(received, [kind |-> "order", status |-> status])
        /\ handleChange(OrderArg(status))
        /\ lastOp' = OpR("orderEvent", status, id, currentStep, Delivery)
        /\ UNCHANGED <<subVars, histVars, swVars, envVars>>

\* An UPDATE of one of the order's order_items rows arrives on an open
\* order_items channel: the callback gets {status: payload.new.status}.
OrderItemEvent ==
    \E id \in 1..Len(channels), status \in OrderStatus \cup {"undefined"} :
        /\ channels[id].kind = "items"
        /\ channels[id].state = "joined"
        /\ Len(received) < MaxEvents
        /\ (onUpdate # "null" /\ Notifies(currentStep, status)) => Len(cards) < MaxEventShows
        /\ received' = Append(received, [kind |-> "items", status |-> status])
        /\ handleChange(ItemArg(status))
        /\ lastOp' = OpR("itemEvent", status, id, currentStep, Delivery)
        /\ UNCHANGED <<subVars, histVars, swVars, envVars>>

-----------------------------------------------------------------------------
(* The service worker: its caches *)

CACHE_NAME == "sarawak-food-court-v1"

urlsToCache ==
    << "/", "/customer/home.html", "/customer/menu.html",
       "/customer/order-tracking.html", "/css/main.css", "/css/customer.css",
       "/css/notifications.css", "/js/app.js", "/js/notifications.js" >>

ManifestUrls == {urlsToCache[i] : i \in 1..Len(urlsToCache)}

\* The cache of an earlier version of the worker, and the cache syncOrders opens.
OldCacheName == "sarawak-food-court-v0"
OrdersCacheName == "orders-cache"
CacheNames == {CACHE_NAME, OldCacheName, OrdersCacheName}

OfflineUrl == "/offline.html"

\* The requests the controlled pages make: a page of the manifest, the offline
\* page, and the orders endpoint, read and written.
Requests ==
    { [method |-> "GET",  url |-> "/customer/menu.html"],
      [method |-> "GET",  url |-> OfflineUrl],
      [method |-> "GET",  url |-> "/api/orders"],
      [method |-> "POST", url |-> "/api/orders"] }

NoRequest == [method |-> "none", url |-> "none"]

\* What respondWith is handed: a response of a cache, the response of the
\* network, or undefined.
FromCache(url)   == [source |-> "cache", url |-> url]
FromNetwork(url) == [source |-> "network", url |-> url]
Undefined        == [source |-> "undefined", url |-> "none"]

NoCache == [present |-> FALSE, keys |-> {}]
NoCaches == [n \in CacheNames |-> NoCache]
OldGeneration == [NoCaches EXCEPT ![OldCacheName] = [present |-> TRUE, keys |-> {"/"}]]

\* caches.keys()
keys(storage) == {n \in CacheNames : storage[n].present}

\* caches.open(name): the cache of that name, created when there is none
open(storage, name) == [storage EXCEPT ![name].present = TRUE]

\* caches.delete(name)
delete(storage, name) == [storage EXCEPT ![name] = NoCache]

\* The urls that have an entry in some cache.
entries(storage) == UNION {storage[n].keys : n \in keys(storage)}

\* What the network answers when fetch(request) resolves: an ok response or an
\* error response (status 404, 500); fetch resolves with either.
ResponseKinds == {"ok", "error"}

\* (a lookup that finds nothing)
matchMut(storage, request) == FALSE
\* caches.match(request): a GET request matches an entry of any cache
match(storage, request) ==
    /\ request.method = "GET"
    /\ \E n \in keys(storage) : request.url \in storage[n].keys

\* (an addAll that keeps what it could fetch)
addAllMut(stored, urls, failing) == stored \cup (urls \ failing)
\* cache.addAll(urls): every url is fetched and then all are stored, or none is
addAll(stored, urls, failing) ==
    IF urls \cap failing = {} THEN stored \cup urls ELSE stored

SwOp(name, request, response, net, netOk, put, ok, deleted, failing) ==
    [op |-> name, req |-> request, resp |-> response, net |-> net, netOk |-> netOk,
     put |-> put, ok |-> ok, deleted |-> deleted, failing |-> failing]

\* The resources of the manifest an install may fail to fetch.
Unreachable == SUBSET {"/", "/js/app.js"}

\* install: the event of a worker that is being registered; a worker whose
\* install failed is registered again.
Install ==
    /\ worker \in {"installing", "redundant"}
    /\ \E openOk \in BOOLEAN, failing \in Unreachable :
        LET ok == openOk /\ failing = {}
            opened == open(cacheStorage, CACHE_NAME)
        IN  /\ cacheStorage' =
                IF openOk
                THEN [opened EXCEPT ![CACHE_NAME].keys = addAll(@, ManifestUrls, failing)]
                ELSE cacheStorage
            /\ worker' = IF ok THEN "installed" ELSE "redundant"
            /\ storedErrors' = storedErrors
            /\ lastSw' = SwOp("install", NoRequest, Undefined, FALSE, FALSE, FALSE, ok, {},
                              IF openOk THEN failing ELSE {})
    /\ UNCHANGED <<pendingPuts, fetchedOk, written, pendingErrors, pushVars, bridgeVars,
                   lastSync, pageVars>>

\* (an activation that spares the orders cache)
activateMut(storage) ==
    [n \in CacheNames |->
        IF n # CACHE_NAME /\ n # OrdersCacheName THEN NoCache ELSE storage[n]]
\* the activate listener: every cache of another name is deleted
activate(storage) ==
    [n \in CacheNames |-> IF n # CACHE_NAME THEN delete(storage, n)[n] ELSE storage[n]]

\* A window of the origin: its URL and the worker version that controls it
\* (none, the previous version, or this one).
Client(url, controller) == [url |-> url, controller |-> controller]

PreviousControls(cl) == \E i \in 1..Len(cl) : cl[i].controller = "previous"

\* activate: the event of an installed worker once no window is controlled by
\* the previous version or skipWaiting has made the worker the active one, and
\* of a later activation of a worker with the same CACHE_NAME.
Activate ==
    /\ worker \in {"installed", "activating", "activated"}
    /\ worker = "installed" => ~PreviousControls(clients)
    /\ cacheStorage' = activate(cacheStorage)
    /\ storedErrors' = storedErrors \cap entries(activate(cacheStorage))
    /\ worker' = "activated"
    /\ lastSw' = SwOp("activate", NoRequest, Undefined, FALSE, FALSE, FALSE, TRUE,
                      keys(cacheStorage) \ {CACHE_NAME}, {})
    /\ UNCHANGED <<pendingPuts, fetchedOk, written, pendingErrors, pushVars, bridgeVars,
                   lastSync, pageVars>>

\* The catch of the fetch listener: caches.match('/offline.html').
offlineFallback(storage) ==
    IF match(storage, [method |-> "GET", url |-> OfflineUrl])
    THEN FromCache(OfflineUrl)
    ELSE Undefined

\* fetch: a request of a controlled page.  netOk: fetch(request) resolves, with
\* a response of either kind;
\* openOk: caches.open(CACHE_NAME) resolves.  cache.put is called and not
\* awaited: it settles later.
Fetch ==
    /\ worker = "activated"
    /\ \E request \in Requests, netOk \in BOOLEAN, openOk \in BOOLEAN :
        IF match(cacheStorage, request)
        THEN /\ lastSw' = SwOp("fetch", request, FromCache(request.url),
                               FALSE, FALSE, FALSE, TRUE, {}, {})
             /\ UNCHANGED <<cacheStorage, pendingPuts, fetchedOk, pendingErrors>>
        ELSE IF netOk /\ openOk
        THEN /\ cacheStorage' = open(cacheStorage, CACHE_NAME)
             /\ pendingPuts' = pendingPuts \cup {request}
             /\ \E kind \in ResponseKinds :
                    pendingErrors' = IF kind = "error" THEN pendingErrors \cup {request}
                                     ELSE pendingErrors \ {request}
             /\ fetchedOk' = fetchedOk \cup {request}
             /\ lastSw' = SwOp("fetch", request, FromNetwork(request.url),
                               TRUE, TRUE, TRUE, TRUE, {}, {})
        ELSE /\ lastSw' = SwOp("fetch", request, offlineFallback(cacheStorage),
                               TRUE, netOk, FALSE, TRUE, {}, {})
             /\ UNCHANGED <<cacheStorage, pendingPuts, fetchedOk, pendingErrors>>
    /\ UNCHANGED <<worker, written, storedErrors, pushVars, bridgeVars, lastSync, pageVars>>

\* A cache.put of the fetch listener settles: the entry is stored, or the
\* promise rejects (the request is not a GET, or the store fails) with nobody
\* handling the rejection.
PutSettles ==
    /\ \E request \in pendingPuts, storeOk \in BOOLEAN :
        LET ok == request.method = "GET" /\ storeOk
        IN  /\ pendingPuts' = pendingPuts \ {request}
            /\ pendingErrors' = pendingErrors \ {request}
            /\ storedErrors' =
                IF ~ok THEN storedErrors
                ELSE IF request \in pendingErrors THEN storedErrors \cup {request.url}
                ELSE storedErrors \ {request.url}
            /\ cacheStorage' =
                IF ok
                THEN [cacheStorage EXCEPT ![CACHE_NAME].keys = @ \cup {request.url}]
                ELSE cacheStorage
            /\ written' = IF ok THEN written \cup {request} ELSE written
            /\ lastSw' = SwOp("put", request, Undefined, FALSE, FALSE, TRUE, ok, {}, {})
    /\ UNCHANGED <<worker, fetchedOk, pushVars, bridgeVars, lastSync, pageVars>>

\* The order requests a page has put into the orders cache for replay.
OrderQueueUrls == {"/api/orders?queued=1", "/api/orders?queued=2"}

\* A page queues an order request: caches.open('orders-cache'), then put.
QueueOrder ==
    /\ \E url \in OrderQueueUrls :
        /\ url \notin cacheStorage[OrdersCacheName].keys
        /\ cacheStorage' =
            [open(cacheStorage, OrdersCacheName) EXCEPT ![OrdersCacheName].keys = @ \cup {url}]
        /\ lastSw' = SwOp("queue", [method |-> "GET", url |-> url], Undefined,
                          FALSE, FALSE, TRUE, TRUE, {}, {})
    /\ UNCHANGED <<worker, pendingPuts, fetchedOk, written, pendingErrors, storedErrors,
                   pushVars, bridgeVars, lastSync, pageVars>>

\* cache.keys(): the requests of a cache, in some order
Orderings(stored) ==
    {q \in [1..Cardinality(stored) -> stored] : \A u \in stored : \E i \in DOMAIN q : q[i] = u}

\* (a loop that goes back to the requests whose fetch was rejected)
replayedMut(requests, failing) ==
    requests \o SelectSeq(requests, LAMBDA u : u \in failing)
\* The requests the loop of syncOrders fetches: the first rejected fetch throws
\* into the catch, which ends the loop.
replayed(requests, failing) ==
    LET bad == {i \in 1..Len(requests) : requests[i] \in failing}
    IN  IF bad = {} THEN requests
        ELSE SubSeq(requests, 1, CHOOSE i \in bad : \A j \in bad : i <= j)

\* The requests of the loop whose response was put back into the cache.
restored(requests, failing) ==
    {u \in OrderQueueUrls :
        u \notin failing /\ \E i \in 1..Len(replayed(requests, failing)) :
                                replayed(requests, failing)[i] = u}

\* sync: for the tag 'sync-orders', syncOrders opens the orders cache, fetches
\* each of its requests and puts the response back under the same request;
\* whatever throws is caught and logged.  failing: the requests whose fetch
\* is rejected; errors: those answered with an error response.
Sync ==
    /\ worker = "activated"
    /\ \E tag \in {"sync-orders", "other"}, openOk \in BOOLEAN :
        LET opened == tag = "sync-orders" /\ openOk
            queue  == IF opened THEN cacheStorage[OrdersCacheName].keys ELSE {}
        IN  \E requests \in Orderings(queue), failing \in SUBSET queue :
            \E errors \in SUBSET restored(requests, failing) :
                /\ cacheStorage' =
                    IF opened THEN open(cacheStorage, OrdersCacheName) ELSE cacheStorage
                /\ storedErrors' =
                    (storedErrors \ restored(requests, failing)) \cup errors
                /\ lastSync' = [tag |-> tag, requests |-> requests,
                                failing |-> failing \cap queue,
                                fetched |-> replayed(requests, failing),
                                rejected |-> FALSE]
                /\ lastSw' = SwOp("sync", NoRequest, Undefined, FALSE, FALSE, FALSE,
                                  tag = "sync-orders", {}, {})
    /\ UNCHANGED <<worker, pendingPuts, fetchedOk, written, pendingErrors, pushVars,
                   bridgeVars, pageVars>>

-----------------------------------------------------------------------------
(* The service worker: push notifications *)

\* A notification on display, and the listener that showed it.
Displayed(via, note) == [via |-> via, note |-> note]

\* The display after showNotification(note): a notification of the same tag is
\* replaced.
display(vis, via, note) ==
    SelectSeq(vis, LAMBDA v : v.note.tag # note.tag) \o <<Displayed(via, note)>>

\* let notificationData = {...}; data is left undefined
notificationData ==
    [title |-> "Sarawak Food Court",
     body |-> "Your order status has been updated",
     icon |-> "/assets/logo.png",
     badge |-> "/assets/logo.png",
     vibrate |-> <<200, 100, 200>>,
     tag |-> "order-update",
     requireInteraction |-> FALSE,
     data |-> "undefined"]

actions ==
    << [action |-> "view",  title |-> "View Order", icon |-> "/assets/icons/view.png"],
       [action |-> "close", title |-> "Dismiss",    icon |-> "/assets/icons/close.png"] >>

\* event.data of a push: absent, or a message with its text, whether the text
\* is JSON, and for JSON the own properties of the value (has) and their
\* values (val; the data of a notification is the orderId it carries).
PushMessage(text, isJson, has, val) ==
    [present |-> TRUE, text |-> text, isJson |-> isJson, has |-> has, val |-> val]

NoPushData == [PushMessage("", FALSE, {}, notificationData) EXCEPT !.present = FALSE]

PushData ==
    { NoPushData,
      PushMessage("Order 12 is ready", FALSE, {}, notificationData),
      PushMessage("{\"body\":\"Order 12 is ready\"}", TRUE, {"body"},
                  [notificationData EXCEPT !.body = "Order 12 is ready"]),
      PushMessage("{\"title\":\"Order Update\",\"tag\":\"order-12\",\"data\":{\"orderId\":\"12\"}}",
                  TRUE, {"title", "tag", "data"},
                  [notificationData EXCEPT !.title = "Order Update", !.tag = "order-12",
                                           !.data = "12"]),
      PushMessage("{\"icon\":\"/assets/ready.png\",\"badge\":\"/assets/badge.png\",\"vibrate\":[100],\"requireInteraction\":true}",
                  TRUE, {"icon", "badge", "vibrate", "requireInteraction"},
                  [notificationData EXCEPT !.icon = "/assets/ready.png",
                                           !.badge = "/assets/badge.png",
                                           !.vibrate = <<100>>,
                                           !.requireInteraction = TRUE]),
      PushMessage("42", TRUE, {}, notificationData) }

\* (the defaults spread last: { ...data, ...notificationData })
spreadMut(target, has, val) == target
\* { ...notificationData, ...data }
spread(target, has, val) ==
    [f \in DOMAIN target |-> IF f \in has THEN val[f] ELSE target[f]]

\* (a catch that leaves the data as they are)
parseFailedMut(target, text) == target
\* catch (e) { notificationData.body = event.data.text(); }
parseFailed(target, text) == [target EXCEPT !.body = text]

\* The notification data after  if (event.data) { try ... catch ... }.
resolve(data) ==
    IF ~data.present THEN notificationData
    ELSE IF data.isJson THEN spread(notificationData, data.has, data.val)
    ELSE parseFailed(notificationData, data.text)

\* self.registration.showNotification(title, options) of the push listener,
\* handed to event.waitUntil
showNotification(d) ==
    [title |-> d.title, body |-> d.body, icon |-> d.icon, badge |-> d.badge,
     vibrate |-> d.vibrate, tag |-> d.tag, requireInteraction |-> d.requireInteraction,
     data |-> d.data, actions |-> actions, waitUntil |-> TRUE]

Push ==
    /\ Len(pushEvents) < MaxPushes
    /\ \E data \in PushData :
        /\ pushEvents' = Append(pushEvents, data)
        /\ shown' = Append(shown, showNotification(resolve(data)))
        /\ visible' = display(visible, "push", showNotification(resolve(data)))
    /\ UNCHANGED <<cacheVars, lastSw, clients, latest, lastClick, lastSync, pageVars>>

-----------------------------------------------------------------------------
(* The service worker: messages of the page and clicks on notifications *)

MessageTypes == {"SKIP_WAITING", "ORDER_UPDATE", "PING"}
OrderIds == {"12", "13", "undefined"}
MessageTexts == {"Your order is ready", "Your order is completed"}

\* (a skipWaiting that leaves the worker waiting)
skipWaitingMut(w, cl) == [worker |-> w, clients |-> cl]
\* self.skipWaiting(): a waiting worker becomes the registration's active
\* worker and the controller of the windows the previous version controlled.
skipWaiting(w, cl) ==
    IF w = "installed"
    THEN [worker |-> "activating",
          clients |-> [i \in 1..Len(cl) |->
                          IF cl[i].controller = "previous"
                          THEN Client(cl[i].url, "this") ELSE cl[i]]]
    ELSE [worker |-> w, clients |-> cl]

\* (the tag of the push listener's default in place of the order's)
orderUpdateNotificationMut(orderId, message) ==
    [title |-> "Order Update", body |-> message, icon |-> "/assets/logo.png",
     badge |-> "undefined", vibrate |-> <<>>, tag |-> "order-update",
     requireInteraction |-> FALSE, data |-> orderId, actions |-> <<>>,
     waitUntil |-> FALSE]
\* The notification of an ORDER_UPDATE message: no badge, vibrate,
\* requireInteraction or actions are given, and the call is not handed to
\* waitUntil.
orderUpdateNotification(orderId, message) ==
    [title |-> "Order Update", body |-> message, icon |-> "/assets/logo.png",
     badge |-> "undefined", vibrate |-> <<>>, tag |-> "order-" \o orderId,
     requireInteraction |-> FALSE, data |-> orderId, actions |-> <<>>,
     waitUntil |-> FALSE]

\* message: event.data = {type, orderId, status, message} posted by a page to
\* the waiting or the active worker.
Message ==
    /\ worker \in {"installed", "activating", "activated"}
    /\ \E type \in MessageTypes, orderId \in OrderIds, message \in MessageTexts :
        /\ worker' = IF type = "SKIP_WAITING"
                     THEN skipWaiting(worker, clients).worker ELSE worker
        /\ clients' = IF type = "SKIP_WAITING"
                      THEN skipWaiting(worker, clients).clients ELSE clients
        /\ visible' = IF type = "ORDER_UPDATE"
                      THEN display(visible, "message", orderUpdateNotification(orderId, message))
                      ELSE visible
        /\ latest' = IF type = "ORDER_UPDATE"
                     THEN [latest EXCEPT ![orderId] = message] ELSE latest
        /\ lastSw' = SwOp(type, NoRequest, Undefined, FALSE, FALSE, FALSE, TRUE, {}, {})
    /\ UNCHANGED <<cacheStorage, pendingPuts, fetchedOk, written, pendingErrors, storedErrors,
                   pushVars, lastClick, lastSync, pageVars>>

\* String.prototype.includes
includes(s, sub) ==
    \E i \in 1..(Len(s) - Len(sub) + 1) : SubSeq(s, i, i + Len(sub) - 1) = sub

\* clients.matchAll({ type: 'window', includeUnattached: true }): matchAll has
\* no option includeUnattached, so includeUncontrolled keeps its default and
\* the windows this worker does not control are left out.
matchAll(cl) == {i \in 1..Len(cl) : cl[i].controller = "this"}

\* The first window of the list whose url includes '/customer/' (0: none).
firstCustomer(cl) ==
    LET found == {i \in matchAll(cl) : includes(cl[i].url, "/customer/")}
    IN  IF found = {} THEN 0 ELSE CHOOSE i \in found : \A j \in found : i <= j

\* const url = orderId ? `...?order=${orderId}` : '/customer/order-tracking.html'
trackingUrl(orderId) ==
    IF orderId \notin {"undefined", "null", ""}
    THEN "/customer/order-tracking.html?order=" \o orderId
    ELSE "/customer/order-tracking.html"

\* (every action but close navigates)
navigatesMut(action) == action # "close"
\* event.action === 'view' || !event.action
navigates(action) == action = "view" \/ action = ""

ClientOp(name, client, url) == [op |-> name, client |-> client, url |-> url]

\* notificationclick on a notification of the display, with the action of the
\* button clicked ("" for a click on the body).
NotificationClick ==
    /\ worker \in {"activating", "activated"}
    /\ \E n \in 1..Len(visible), action \in {"view", "close", "dismiss", ""} :
        LET note  == visible[n].note
            url   == trackingUrl(note.data)
            first == firstCustomer(clients)
        IN  /\ visible' = SubSeq(visible, 1, n - 1) \o SubSeq(visible, n + 1, Len(visible))
            /\ clients' =
                IF ~navigates(action) THEN clients
                ELSE IF first # 0 THEN [clients EXCEPT ![first].url = url]
                ELSE Append(clients, Client(url, "this"))
            /\ lastClick' =
                [action |-> action, tag |-> note.tag, orderId |-> note.data,
                 ops |-> IF ~navigates(action) THEN <<>>
                         ELSE IF first # 0
                         THEN <<ClientOp("focus", first, clients[first].url),
                                ClientOp("navigate", first, url)>>
                         ELSE <<ClientOp("openWindow", Len(clients) + 1, url)>>]
            /\ lastSw' = SwOp("notificationclick", NoRequest, Undefined,
                              FALSE, FALSE, FALSE, TRUE, {}, {})
    /\ UNCHANGED <<cacheVars, pushVars, latest, lastSync, pageVars>>

\* The windows open when the worker is registered: none, a customer page that
\* no worker controls (a first visit), or pages the previous version controls.
ClientLists ==
    { <<>>,
      <<Client("/customer/menu.html", "none")>>,
      <<Client("/hawker/dashboard.html", "previous"),
        Client("/customer/menu.html", "previous")>> }

-----------------------------------------------------------------------------
InitState ==
    /\ cards = <<>>
    /\ attached = {}
    /\ hidden = {}
    /\ notificationQueue = <<>>
    /\ autoTimers = {}
    /\ removalTimers = <<>>
    /\ fault = FALSE
    /\ lastNotify = Notified("none", BrowserNotification("none", 0, FALSE))
    /\ currentStep = "pending"
    /\ rendered = NoRender
    /\ onUpdate = "null"
    /\ subscription = 0
    /\ channels = <<>>
    /\ releases = <<>>
    /\ received = <<>>
    /\ calls = <<>>
    /\ fed = <<>>
    /\ widthLog = <<>>
    /\ lastOp = Op("new", "none", 0, "pending")

\* A first visit, in a browser that can play sounds.
InitEnv == permission = "default" /\ serviceWorkerRegistration = "null" /\ audio = TRUE

\* The worker's script has been evaluated; nothing has been dispatched to it.
InitWorker ==
    /\ worker = "installing"
    /\ pendingPuts = {}
    /\ pendingErrors = {}
    /\ storedErrors = {}
    /\ fetchedOk = {}
    /\ written = {}
    /\ pushEvents = <<>>
    /\ shown = <<>>
    /\ visible = <<>>
    /\ latest = [o \in OrderIds |-> "none"]
    /\ lastClick = [action |-> "none", tag |-> "none", orderId |-> "none", ops |-> <<>>]
    /\ lastSync = [tag |-> "none", requests |-> <<>>, failing |-> {}, fetched |-> <<>>,
                   rejected |-> FALSE]
    /\ lastSw = SwOp("new", NoRequest, Undefined, FALSE, FALSE, FALSE, TRUE, {}, {})

\* The page holds the tracker's container element; the origin has no cache.
Init ==
    /\ InitState /\ InitEnv /\ container = TRUE
    /\ InitWorker /\ cacheStorage = NoCaches /\ clients = <<>>

\* The tracker may have been constructed with an id no element carries.
InitTracker ==
    /\ InitState /\ InitEnv /\ container \in BOOLEAN
    /\ InitWorker /\ cacheStorage = NoCaches /\ clients = <<>>

\* The permission may have been answered on an earlier visit (or the browser
\* has no Notification: "unsupported"); the browser may be unable to play sounds.
InitNotify ==
    /\ InitState /\ container = TRUE
    /\ InitWorker /\ cacheStorage = NoCaches /\ clients = <<>>
    /\ permission \in {"default", "granted", "denied", "unsupported"}
    /\ serviceWorkerRegistration = "null"
    /\ audio \in BOOLEAN

\* The origin has no cache, or the cache of an earlier version of the worker.
InitCache ==
    /\ InitState /\ InitEnv /\ container = TRUE /\ InitWorker /\ clients = <<>>
    /\ cacheStorage \in {NoCaches, OldGeneration}

\* The origin has no cache; some windows may be open.
InitBridge ==
    /\ InitState /\ InitEnv /\ container = TRUE /\ InitWorker /\ cacheStorage = NoCaches
    /\ clients \in ClientLists

NextQueue == notifyNewOrder \/ Dismiss \/ AutoDismissTimer \/ RemovalTimer

SpecQueue == Init /\ [][NextQueue]_vars

NextTracker == UpdateStatus \/ Render

SpecTracker == InitTracker /\ [][NextTracker]_vars

\* The screen's usual lifecycle: one subscribe per OrderSubscription object.
FirstSubscribe == subscription = 0 /\ Subscribe

NextSub == FirstSubscribe \/ Unsubscribe \/ ChannelStatus \/ OrderEvent \/ OrderItemEvent

SpecSub == Init /\ [][NextSub]_vars

\* subscribe and unsubscribe called any number of times on one object.
NextResub == Subscribe \/ Unsubscribe \/ ChannelStatus

SpecResub == Init /\ [][NextResub]_vars

NextCache == Install \/ Activate \/ Fetch \/ PutSettles \/ Sync \/ QueueOrder

SpecCache == InitCache /\ [][NextCache]_vars

NextPush == Push

SpecPush == Init /\ [][NextPush]_vars

NextNotify == UpdateStatus \/ RegisterServiceWorker \/ RegistrationActive \/ RequestPermission

SpecNotify == InitNotify /\ [][NextNotify]_vars

NextBridge == Install \/ Activate \/ Message \/ NotificationClick

SpecBridge == InitBridge /\ [][NextBridge]_vars

Next ==
    \/ NextQueue \/ NextTracker \/ NextSub \/ NextResub \/ NextNotify
    \/ NextCache \/ NextPush \/ NextBridge

Spec == Init /\ [][Next]_vars

-----------------------------------------------------------------------------
(* Properties of the ProgressTracker *)

Linear == {steps[i] : i \in 1..Len(steps)}

Titles == [i \in 1..Len(cards) |-> cards[i].title]

\* A width in tenths of a percent, rounded half up.
RoundTenths(w) == (w + 50) \div 100

\* C1: over every sequence of updateStatus calls the width getProgressWidth
\* gives never decreases from one call to the next while currentStep stays one
\* of pending, preparing, ready, completed.
C1_WidthNeverDecreases ==
    [][(lastOp'.op = "updateStatus" /\ currentStep \in Linear /\ currentStep' \in Linear)
        => getProgressWidth(currentStep') >= getProgressWidth(currentStep)]_vars

\* C2: updateStatus with a value outside the five statuses (undefined included)
\* returns an InvalidStatus error, leaves currentStep and the rendered width as
\* they were and shows no notification.
C2_InvalidStatusRejected ==
    [][(lastOp'.op = "updateStatus" /\ lastOp'.status \notin OrderStatus)
        => /\ lastOp'.result = "InvalidStatus"
           /\ currentStep' = currentStep
           /\ rendered' = rendered
           /\ cards' = cards]_vars

\* C3: cancelled is absorbing: once currentStep is cancelled no updateStatus
\* call changes currentStep, re-renders a position or shows a notification.
C3_CancelledAbsorbing ==
    [][(lastOp'.op = "updateStatus" /\ currentStep = "cancelled")
        => /\ currentStep' = "cancelled"
           /\ rendered' = rendered
           /\ cards' = cards]_vars

\* C4: updateStatus(s) with s the current step changes nothing: currentStep
\* stays, nothing is rendered and show is not called; so a backend event of
\* either channel that carries the status already applied adds no notification,
\* whichever of the two events came first.
C4_SameStatusIsNoOp ==
    [][(/\ lastOp'.op \in {"updateStatus", "orderEvent", "itemEvent"}
        /\ lastOp'.status = currentStep)
        => UNCHANGED <<trackerVars, nmVars>>]_vars

\* C4, its case: the order channel has applied ready, and an order_items event
\* that also carries ready has been handed to the callback.
C4_Witness ==
    /\ lastOp.op = "itemEvent"
    /\ lastOp.result = "called"
    /\ lastOp.status = "ready"
    /\ lastOp.prev = "ready"
    /\ currentStep = "ready"
    /\ Len(cards) = 1

\* C5: a new tracker fed pending, preparing, ready, completed calls show four
\* times, with the titles Order Confirmed!, Cooking Started!, Order Ready!,
\* Enjoy Your Meal! in that order, and the width after the calls is 0, 33.3,
\* 66.7, 100.
C5_StatusFlow ==
    fed = <<"pending", "preparing", "ready", "completed">>
        => /\ Titles = <<"Order Confirmed!", "Cooking Started!", "Order Ready!",
                         "Enjoy Your Meal!">>
           /\ [i \in 1..Len(widthLog) |-> RoundTenths(widthLog[i])] = <<0, 333, 667, 1000>>

-----------------------------------------------------------------------------
(* Properties of the NotificationManager *)

Range(seq) == {seq[i] : i \in 1..Len(seq)}

Without(seq, n) == SelectSeq(seq, LAMBDA x : x # n)

\* C6: the queue never holds more than maxNotifications = 3 cards; a show on a
\* full queue takes out the oldest card of the three, whether or not that card's
\* own auto-dismiss timer is still pending, and no other card.
C6_QueueBoundedFifo ==
    /\ [](Len(notificationQueue) <= maxNotifications)
    /\ [][lastOp'.op = "show"
            => /\ attached' = attached \cup {lastOp'.item}
               /\ notificationQueue' =
                    IF Len(notificationQueue) = maxNotifications
                    THEN Append(Tail(notificationQueue), lastOp'.item)
                    ELSE Append(notificationQueue, lastOp'.item)]_vars

\* C6, its case: the fourth show has evicted card 1 while card 1's own
\* auto-dismiss timer was still pending.
C6_Witness ==
    /\ lastOp.op = "show"
    /\ lastOp.item = maxNotifications + 1
    /\ notificationQueue = <<2, 3, 4>>
    /\ 1 \in autoTimers
    /\ 1 \in hidden

\* C7: between handlers and timer callbacks a card is in notificationQueue
\* exactly if it is attached to the container (manual dismiss, auto-dismiss and
\* eviction by show alike).
C7_QueueIffAttached ==
    \A n \in 1..Len(cards) : (n \in Range(notificationQueue)) <=> (n \in attached)

\* C8: dismiss is idempotent: however often a card is dismissed (during its
\* exit transition, after its eviction, by its late auto-dismiss timer), each
\* removal callback takes only that card from the page and from the queue, a
\* removed card stays removed, and nothing throws.
C8_DismissIdempotent ==
    /\ [](~fault)
    /\ [][lastOp'.op = "removal"
            => /\ attached' = attached \ {lastOp'.item}
               /\ notificationQueue' = Without(notificationQueue, lastOp'.item)]_vars
    /\ [][\A n \in 1..Len(cards) : n \notin attached => n \notin attached']_vars

\* C8, its case: a removal callback has run for a card that was already off
\* the page and out of the queue (it was evicted, then dismissed again), while
\* other cards were in the queue.
C8_Witness ==
    /\ lastOp.op = "removal"
    /\ lastOp.status = "detached"
    /\ lastOp.item = 1
    /\ Len(cards) > maxNotifications
    /\ Len(notificationQueue) = maxNotifications

-----------------------------------------------------------------------------
(* Properties of the OrderSubscription *)

\* unsubscribe has run since the last subscribe.
Released == subscription # 0 /\ releases[subscription] > 0

\* The two channels the last subscribe opened.
OwnChannels == IF subscription = 0 THEN {} ELSE {subscription, subscription + 1}

\* C9: after unsubscribe neither the order channel nor the order_items channel
\* subscribe opened is still open, and no update event on either reaches the
\* callback any more.
C9_UnsubscribeReleasesBoth ==
    /\ [](Released => \A id \in OwnChannels : channels[id].state = "closed")
    /\ [][(/\ Released
           /\ lastOp'.op \in {"orderEvent", "itemEvent"}
           /\ lastOp'.item \in OwnChannels)
            => lastOp'.result # "called"]_vars

\* C10: unsubscribe is idempotent and safe anywhere in the lifecycle: before
\* subscribe it changes nothing, while a channel is connecting it closes it, a
\* second call leaves the closed state of the first, and no channel is released
\* more than once.
C10_UnsubscribeIdempotent ==
    [][lastOp'.op = "unsubscribe"
        => /\ \A id \in 1..Len(releases') : releases'[id] <= 1
           /\ \A id \in OwnChannels : channels'[id].state = "closed"
           /\ Released => subVars' = subVars]_vars

\* A channel the realtime client still holds open or is opening.
Active(id) == channels[id].state \in {"joining", "joined"}

\* C11: per kind (order record, line items) at most one channel is active: a
\* second subscribe for the order closes the channels of the first, so that no
\* earlier channel stays open.
C11_OneChannelPerKind ==
    \A kind \in {"order", "items"} :
        Cardinality({id \in 1..Len(channels) : channels[id].kind = kind /\ Active(id)}) <= 1

\* What the callback is to be handed for a received event.
ExpectedArg(kind, status) ==
    [shape |-> IF kind = "order" THEN "row" ELSE "status", status |-> status]

\* C12: while subscribed, each update event received calls the callback once,
\* an orders event with the new row and an order_items event with {status},
\* the calls follow the order of receipt, and no event is merged with another
\* or dropped.
C12_EveryEventCallsOnce ==
    [][(lastOp'.op \in {"orderEvent", "itemEvent"} /\ ~Released)
        => calls' = Append(calls,
                           ExpectedArg(IF lastOp'.op = "orderEvent" THEN "order" ELSE "items",
                                       lastOp'.status))]_vars

\* C12, its case: while subscribed, two events in a row carried the same status
\* (one per channel) and each reached the callback.
C12_Witness ==
    /\ ~Released
    /\ Len(calls) = 2
    /\ Len(received) = 2
    /\ calls[1] = [shape |-> "row", status |-> "ready"]
    /\ calls[2] = [shape |-> "status", status |-> "ready"]

\* C13: however the events of the order channel and the order_items channel
\* interleave, they are applied one after the other and currentStep is the
\* status of the last event applied, when that status is one of the five.
C13_LastAppliedWins ==
    (received # <<>> /\ received[Len(received)].status \in OrderStatus)
        => currentStep = received[Len(received)].status

\* C13, its case: the order channel applied ready, then the order_items channel
\* an earlier status, which is the current step now.
C13_Witness ==
    /\ Len(received) = 2
    /\ received[1] = [kind |-> "order", status |-> "ready"]
    /\ received[2] = [kind |-> "items", status |-> "preparing"]
    /\ currentStep = "preparing"

-----------------------------------------------------------------------------
(* Properties of the service worker *)

\* C14: when activate is done, every cache of a name other than CACHE_NAME is
\* deleted and the cache of CACHE_NAME is kept as it was, so exactly one cache
\* is present after each run; a second run right after changes nothing.
C14_ActivateKeepsOneGeneration ==
    [][lastSw'.op = "activate"
        => /\ keys(cacheStorage') = {CACHE_NAME}
           /\ cacheStorage'[CACHE_NAME] = cacheStorage[CACHE_NAME]
           /\ activate(cacheStorage') = cacheStorage']_vars

\* C14, its case: a later activation has deleted the cache opened since the
\* first one and kept the entries written into the cache of CACHE_NAME.
C14_Witness ==
    /\ lastSw.op = "activate"
    /\ lastSw.deleted = {OrdersCacheName}
    /\ keys(cacheStorage) = {CACHE_NAME}
    /\ ManifestUrls \subseteq cacheStorage[CACHE_NAME].keys
    /\ written # {}

\* C15 as stated: a request found in the cache is answered from the cache
\* without a network call, and so is every request that the fetch listener has
\* answered with the response of the network before.
C15_CacheHitDeterminism ==
    [][lastSw'.op = "fetch"
        => ((match(cacheStorage, lastSw'.req) \/ lastSw'.req \in fetchedOk)
                => /\ lastSw'.resp = FromCache(lastSw'.req.url)
                   /\ ~lastSw'.net)]_vars

\* C15, amended: a request found in the cache is answered from the cache
\* without a network call, and so is every request fetched from the network
\* before once the cache.put of that fetch has stored its entry.
C15_CacheHitOnceStored ==
    [][lastSw'.op = "fetch"
        => ((match(cacheStorage, lastSw'.req) \/ lastSw'.req \in written)
                => /\ lastSw'.resp = FromCache(lastSw'.req.url)
                   /\ ~lastSw'.net)]_vars

\* C15, its case: a request outside the manifest, fetched from the network and
\* stored since, has been answered from the cache.
C15_Witness ==
    /\ lastSw.op = "fetch"
    /\ lastSw.req \in written
    /\ lastSw.req \in fetchedOk
    /\ lastSw.req.url \notin ManifestUrls
    /\ lastSw.resp = FromCache(lastSw.req.url)
    /\ ~lastSw.net

\* C16: when the request is not cached and the network answers, the fetch
\* listener hands the page the response of the network, whether or not the
\* cache can be opened or written.
C16_StorageFailureKeepsResponse ==
    (lastSw.op = "fetch" /\ lastSw.netOk) => lastSw.resp = FromNetwork(lastSw.req.url)

\* The generic response for a resource that cannot be had.
ResourceUnavailable == [source |-> "unavailable", url |-> "none"]

\* C17: when the request is not cached and the network fetch fails, the page
\* is answered with the offline page if that is cached and with a
\* ResourceUnavailable response otherwise, never with undefined.
C17_OfflineOrUnavailable ==
    (lastSw.op = "fetch" /\ lastSw.net /\ ~lastSw.netOk)
        => lastSw.resp = IF match(cacheStorage, [method |-> "GET", url |-> OfflineUrl])
                         THEN FromCache(OfflineUrl)
                         ELSE ResourceUnavailable

\* C18: a request of another method than GET never takes the cache-first
\* path: it is not answered from a cache and cache.put is not called with it.
C18_NonGetBypassesCache ==
    /\ \A request \in pendingPuts : request.method = "GET"
    /\ (lastSw.op = "fetch" /\ lastSw.req.method # "GET")
            => (~lastSw.put /\ lastSw.resp.source # "cache")

\* C19: install is all or nothing: when a resource of the manifest cannot be
\* fetched, install fails and the cache of CACHE_NAME holds none of the
\* manifest; when install succeeds the cache holds all of it.
C19_InstallAllOrNothing ==
    [][lastSw'.op = "install"
        => /\ lastSw'.failing # {} => ~lastSw'.ok
           /\ lastSw'.ok  => /\ worker' = "installed"
                             /\ ManifestUrls \subseteq cacheStorage'[CACHE_NAME].keys
           /\ ~lastSw'.ok => /\ worker' = "redundant"
                             /\ cacheStorage'[CACHE_NAME].keys \cap ManifestUrls = {}]_vars

\* C19, its case: an install has failed on one resource of the manifest, the
\* others reachable, and has left the opened cache empty.
C19_Witness ==
    /\ lastSw.op = "install"
    /\ lastSw.failing = {"/js/app.js"}
    /\ worker = "redundant"
    /\ cacheStorage[CACHE_NAME] = [present |-> TRUE, keys |-> {}]

\* The push messages whose text is not JSON.
Unparseable(data) == data.present /\ ~data.isJson

\* C20: a push whose payload is not JSON is shown all the same: every push has
\* its notification, and that of an unparseable payload has the payload's text
\* as its body and the default title, icon and tag.
C20_UnparseablePushShown ==
    /\ Len(shown) = Len(pushEvents)
    /\ \A i \in 1..Len(pushEvents) :
        Unparseable(pushEvents[i])
            => /\ shown[i].body = pushEvents[i].text
               /\ shown[i].title = "Sarawak Food Court"
               /\ shown[i].icon = "/assets/logo.png"
               /\ shown[i].tag = "order-update"

\* C20, its case: a push with a text payload has been shown with the text.
C20_Witness ==
    \E i \in 1..Len(pushEvents) :
        /\ Unparseable(pushEvents[i])
        /\ i <= Len(shown)
        /\ shown[i].body = "Order 12 is ready"
        /\ shown[i].title = "Sarawak Food Court"

\* The fields of a push payload, and the two actions of a shown notification.
PayloadFields ==
    {"title", "body", "icon", "badge", "vibrate", "tag", "requireInteraction", "data"}

ViewAndClose ==
    /\ Len(actions) = 2
    /\ actions[1].action = "view"  /\ actions[1].title = "View Order"
    /\ actions[2].action = "close" /\ actions[2].title = "Dismiss"

\* C21: every push without a payload or with a JSON payload is shown as one
\* notification: a field the payload has carries the payload's value, any
\* other field its default; the notification offers the actions view
\* ('View Order') and close ('Dismiss'), and its display is handed to
\* waitUntil.
C21_PushShownFromPayload ==
    /\ Len(shown) = Len(pushEvents)
    /\ \A i \in 1..Len(pushEvents) :
        (~pushEvents[i].present \/ pushEvents[i].isJson)
            => /\ \A f \in PayloadFields :
                    shown[i][f] = IF pushEvents[i].present /\ f \in pushEvents[i].has
                                  THEN pushEvents[i].val[f]
                                  ELSE notificationData[f]
               /\ shown[i].actions = actions
               /\ ViewAndClose
               /\ shown[i].waitUntil

\* C21, its case: a push without a payload and a push whose JSON carries some
\* of the fields have been shown, the one with the defaults, the other with
\* its own icon, badge, vibration and requireInteraction and the default title.
C21_Witness ==
    /\ Len(shown) = 2
    /\ ~pushEvents[1].present
    /\ shown[1].title = "Sarawak Food Court"
    /\ shown[1].vibrate = <<200, 100, 200>>
    /\ pushEvents[2].has = {"icon", "badge", "vibrate", "requireInteraction"}
    /\ shown[2].icon = "/assets/ready.png"
    /\ shown[2].vibrate = <<100>>
    /\ shown[2].requireInteraction
    /\ shown[2].title = "Sarawak Food Court"

\* C27: one sync event with the tag 'sync-orders' fetches each queued order
\* request at most once and never rejects; a request whose fetch failed is still
\* queued afterwards; an event with another tag fetches nothing.
C27_SyncReplaysOnce ==
    [][lastSw'.op = "sync"
        => /\ lastSync'.tag # "sync-orders" => lastSync'.fetched = <<>>
           /\ \A u \in OrderQueueUrls :
                Cardinality({i \in 1..Len(lastSync'.fetched) : lastSync'.fetched[i] = u}) <= 1
           /\ \A i \in 1..Len(lastSync'.fetched) :
                lastSync'.fetched[i] \in cacheStorage[OrdersCacheName].keys
           /\ ~lastSync'.rejected
           /\ lastSync'.failing \subseteq cacheStorage'[OrdersCacheName].keys]_vars

\* C27, its case: of two queued requests the fetch of one was rejected; it was
\* tried once and is still queued.
C27_Witness ==
    /\ lastSw.op = "sync"
    /\ lastSync.tag = "sync-orders"
    /\ Len(lastSync.requests) = 2
    /\ lastSync.failing = {lastSync.requests[2]}
    /\ lastSync.fetched = lastSync.requests
    /\ lastSync.failing \subseteq cacheStorage[OrdersCacheName].keys

-----------------------------------------------------------------------------
(* Properties of the message and notificationclick listeners *)

IsClick(op) == op = "notificationclick"

\* The windows whose URL is under the customer path.
CustomerWindows(cl) ==
    {i \in 1..Len(cl) : Len(cl[i].url) >= 10 /\ SubSeq(cl[i].url, 1, 10) = "/customer/"}

\* The order-tracking URL for the orderId a notification carries.
TargetUrl(orderId) ==
    IF orderId \in {"12", "13"}
    THEN "/customer/order-tracking.html?order=" \o orderId
    ELSE "/customer/order-tracking.html"

\* C22: a click with action view or with no action closes the notification and
\* navigates once, to the tracking URL of the notification's orderId (the plain
\* tracking URL without one): the first open window under the customer path is
\* focused and navigated and no window is opened; with no such window open,
\* one window is opened at that URL.
C22_ViewNavigatesOnce ==
    [][(IsClick(lastSw'.op) /\ lastClick'.action \in {"view", ""})
        => LET url  == TargetUrl(lastClick'.orderId)
               under == CustomerWindows(clients)
               w    == CHOOSE i \in under : \A j \in under : i <= j
           IN  /\ Len(visible') = Len(visible) - 1
               /\ \A i \in 1..Len(visible') : visible'[i].note.tag # lastClick'.tag
               /\ IF under # {}
                  THEN /\ Len(clients') = Len(clients)
                       /\ clients'[w].url = url
                       /\ lastClick'.ops = <<ClientOp("focus", w, clients[w].url),
                                             ClientOp("navigate", w, url)>>
                  ELSE /\ Len(clients') = Len(clients) + 1
                       /\ clients'[Len(clients')].url = url
                       /\ lastClick'.ops = <<ClientOp("openWindow", Len(clients'), url)>>]_vars

\* C23: a click with the action close, or any other action than view, closes
\* the notification and does nothing else: no window is focused, navigated or
\* opened.
C23_CloseOnlyCloses ==
    [][(IsClick(lastSw'.op) /\ lastClick'.action \notin {"view", ""})
        => /\ Len(visible') = Len(visible) - 1
           /\ \A i \in 1..Len(visible') : visible'[i].note.tag # lastClick'.tag
           /\ clients' = clients
           /\ lastClick'.ops = <<>>
           /\ UNCHANGED <<cacheVars, pushVars, latest>>]_vars

\* C23, its case: a notification has been closed by its close button while a
\* customer window that a view would have navigated was open.
C23_Witness ==
    /\ IsClick(lastSw.op)
    /\ lastClick.action = "close"
    /\ lastClick.ops = <<>>
    /\ firstCustomer(clients) # 0

\* The notifications on display that an ORDER_UPDATE of the order has shown.
OrderUpdatesOf(vis, orderId) ==
    {i \in 1..Len(vis) : vis[i].via = "message" /\ vis[i].note.data = orderId}

\* C24: of the notifications ORDER_UPDATE messages have shown, at most one per
\* orderId is on display, with the message of the order's last update, and an
\* update of one order leaves the notifications of the other orders on display.
C24_OneNotificationPerOrder ==
    [][/\ \A o \in OrderIds :
            /\ Cardinality(OrderUpdatesOf(visible', o)) <= 1
            /\ \A i \in OrderUpdatesOf(visible', o) : visible'[i].note.body = latest'[o]
       /\ lastSw'.op = "ORDER_UPDATE"
            => \A i \in 1..Len(visible) :
                    visible[i].note.data # visible'[Len(visible')].note.data
                        => \E j \in 1..Len(visible') : visible'[j] = visible[i]]_vars

\* C24, its case: the notifications of two orders are on display together,
\* the one of order 12 shown last and carrying its last message.
C24_Witness ==
    /\ lastSw.op = "ORDER_UPDATE"
    /\ Len(visible) = 2
    /\ visible[1].note.data = "13"
    /\ visible[2].note.data = "12"
    /\ visible[2].note.body = "Your order is completed"
    /\ latest["12"] = "Your order is completed"
    /\ latest["13"] = "Your order is ready"

\* C25: the notification of an ORDER_UPDATE message is displayed as that of a
\* push is: it offers the actions view and close, and its display is handed to
\* waitUntil.
C25_OrderUpdateShownAsPush ==
    \A i \in 1..Len(visible) :
        visible[i].via = "message"
            => /\ visible[i].note.actions = actions
               /\ visible[i].note.waitUntil

\* The worker is the registration's active worker.
IsActive(w) == w \in {"activating", "activated"}

\* C26: a SKIP_WAITING message makes a waiting worker the active one at once,
\* windows of the previous version open or not; a message of another type
\* leaves the worker and the windows' controllers as they are.
C26_SkipWaitingActivates ==
    [][/\ (lastSw'.op = "SKIP_WAITING" /\ worker = "installed")
            => /\ IsActive(worker')
               /\ \A i \in 1..Len(clients') : clients'[i].controller # "previous"
       /\ lastSw'.op \in (MessageTypes \ {"SKIP_WAITING"})
            => /\ worker' = worker
               /\ clients' = clients]_vars

\* C26, its case: the worker has become the active one by SKIP_WAITING while
\* the two windows of the previous version were open.
C26_Witness ==
    /\ lastSw.op = "SKIP_WAITING"
    /\ worker = "activating"
    /\ Len(clients) = 2
    /\ \A i \in 1..Len(clients) : clients[i].controller = "this"

-----------------------------------------------------------------------------
(* Properties of show's sound and browser notification *)

\* C28: a show never fails because of the sound or the browser notification:
\* with the permission denied, the worker's registration missing or its
\* showNotification rejected, new Notification throwing or no audio, the card
\* is still appended, pushed on the queue and given its auto-dismiss timer,
\* nothing is thrown, and the updateStatus that called show has set and
\* rendered the new status.
C28_ShowNeverFails ==
    [][cards' # cards =>
         LET id == Len(cards')
         IN  /\ Len(cards') = Len(cards) + 1
             /\ id \in attached'
             /\ id \in autoTimers'
             /\ notificationQueue' # <<>>
             /\ notificationQueue'[Len(notificationQueue')] = id
             /\ fault' = fault
             /\ lastNotify'.sound \in {"played", "caught"}
             /\ lastOp'.op = "updateStatus" =>
                    /\ currentStep' = lastOp'.status
                    /\ rendered' = render(lastOp'.status)]_vars

\* A show without audio, whose worker notification was rejected and whose
\* foreground notification threw, has put up its card.
C28_Witness ==
    /\ lastOp.op = "updateStatus"
    /\ cards # <<>>
    /\ Len(cards) \in autoTimers
    /\ ~audio
    /\ lastNotify.sound = "caught"
    /\ lastNotify.agent = "rejected"
    /\ lastNotify.unhandled

-----------------------------------------------------------------------------
(* Properties of a channel's error *)

\* C30: the subscription never retries on its own: a channel is only opened
\* by subscribe, a channel that has reported an error or has been closed is
\* never joining or joined again, and a status report leaves the channel in
\* the reported state, throws nothing and opens nothing.
C30_NoRetryOnError ==
    [][/\ Len(channels') # Len(channels) => lastOp'.op = "subscribe"
       /\ \A id \in 1..Len(channels) :
            /\ channels[id].state \in {"errored", "closed"} =>
                   channels'[id].state \in {"errored", "closed"}
            /\ channels[id].state = "closed" => channels'[id].state = "closed"
       /\ lastOp'.op = "channelStatus" =>
            /\ channels'[lastOp'.item].state = lastOp'.status
            /\ fault' = fault
            /\ UNCHANGED <<onUpdate, subscription, releases>>]_vars

\* Both channels of a subscribe have reported an error, and nothing was opened.
C30_Witness ==
    /\ lastOp.op = "channelStatus"
    /\ lastOp.status = "errored"
    /\ Len(channels) = 2
    /\ \A id \in 1..Len(channels) : channels[id].state = "errored"

-----------------------------------------------------------------------------
(* Properties of the connection state *)

\* What a caller can read off the OrderSubscription about its connection: the
\* object has no field for it, so the most it can see is the state of the
\* channel kept in this.subscription ("none" before the first subscribe).
ObservedConnection ==
    IF subscription = 0 THEN "none"
    ELSE CASE channels[subscription].state = "joining" -> "connecting"
           [] channels[subscription].state = "joined"  -> "subscribed"
           [] channels[subscription].state = "errored" -> "errored"
           [] OTHER                                    -> "closed"

\* C31: the caller can observe a connection state: connecting after
\* subscribe, errored once either of the two channels of the subscription has
\* reported an error, subscribed (or still errored) once one has reported that
\* it is joined, and closed after unsubscribe.
C31_ConnectionStateObserved ==
    [][/\ lastOp'.op = "subscribe" => ObservedConnection' = "connecting"
       /\ (lastOp'.op = "channelStatus"
             /\ lastOp'.item \in {subscription, subscription + 1}) =>
            IF lastOp'.status = "errored"
            THEN ObservedConnection' = "errored"
            ELSE ObservedConnection' \in {"subscribed", "errored"}
       /\ (lastOp'.op = "unsubscribe" /\ subscription # 0) =>
            ObservedConnection' = "closed"]_vars

-----------------------------------------------------------------------------
(* Properties of the rendered progress *)

\* C32: whenever the tracker has rendered one of the five statuses, the width
\* is between 0 and 100 percent: index/(N-1)*100 for a step on the scale; for
\* cancelled a clamped value, with the indicators marked as cancelled instead
\* of showing a position.
C32_WidthDefinedAndClamped ==
    (rendered.drawn /\ currentStep \in OrderStatus) =>
        /\ rendered.width >= 0
        /\ rendered.width <= 100 * 1000
        /\ currentStep \in Linear =>
               rendered.width = (IndexOf(steps, currentStep) * 100 * 1000) \div (Len(steps) - 1)
        /\ currentStep = "cancelled" =>
               /\ \E i \in 1..Len(steps) : rendered.classes[i] = "cancelled"
               /\ \A i \in 1..Len(steps) : rendered.classes[i] # "active"

\* C33: every updateStatus that changes the step to one of the five statuses
\* shows exactly one notification, whose title and message are the entry of
\* the messages table for that status; the table has an entry for each of the
\* five.
C33_OneNotificationPerChange ==
    [][(lastOp'.op = "updateStatus" /\ lastOp'.status \in OrderStatus
          /\ currentStep' # currentStep)
        => /\ messages(lastOp'.status) # NoMessage
           /\ Len(cards') = Len(cards) + 1
           /\ cards'[Len(cards')].title = messages(lastOp'.status).title
           /\ cards'[Len(cards')].message = messages(lastOp'.status).message]_vars

-----------------------------------------------------------------------------
(* Liveness of the NotificationManager *)

\* setTimeout: a pending callback is run after its delay.
TimersFire == WF_vars(AutoDismissTimer) /\ WF_vars(RemovalTimer)

ShowLive == Len(cards) < MaxLiveShown /\ notifyNewOrder

DismissLive == Len(removalTimers) < MaxLivePendingRemovals /\ Dismiss

NextQueueLive == ShowLive \/ DismissLive \/ AutoDismissTimer \/ RemovalTimer

SpecQueueLive == Init /\ [][NextQueueLive]_vars /\ TimersFire

Queued(n) == \E i \in 1..Len(notificationQueue) : notificationQueue[i] = n

\* C34: with timers firing, every card put up by show is eventually off the
\* page and out of the queue, whether or not anybody dismisses it, and the
\* queue does not stay occupied forever.
C34_EventuallyDismissed ==
    /\ \A n \in 1..MaxLiveShown :
          (n \in attached) ~> (n \notin attached /\ ~Queued(n))
    /\ []<>(notificationQueue = <<>>)

\* The first card has gone by its timers alone: its only removal callback, the
\* one its auto-dismiss timer scheduled, has taken it off the page.
C34_Witness ==
    /\ lastOp.op = "removal"
    /\ lastOp.item = 1
    /\ lastOp.status = "attached"
    /\ removalTimers = <<>>
    /\ 1 \notin autoTimers
    /\ 1 \notin attached
    /\ ~Queued(1)
    /\ hidden = {1}

-----------------------------------------------------------------------------
(* Properties of what the caches hold *)

\* C35: the fetch listener and syncOrders store successful responses only: no
\* entry of any cache holds an error response (status 404, 500), so none can
\* be served as a cache hit.
C35_OnlySuccessfulStored ==
    /\ storedErrors = {}
    /\ (lastSw.op = "fetch" /\ lastSw.resp.source = "cache") =>
           lastSw.resp.url \notin storedErrors

\* C36: after an activation exactly one cache is present, whatever the worker
\* does later: the fetch listener and syncOrders create no cache of another
\* name than CACHE_NAME, and an activation leaves the queued order requests
\* that syncOrders replays where they are.
C36_OneCacheAfterActivation ==
    [][/\ (worker' = "activated" /\ lastSw'.op \in {"activate", "fetch", "put", "sync"}) =>
            Cardinality(keys(cacheStorage')) = 1
       /\ lastSw'.op \in {"fetch", "put", "sync"} =>
            keys(cacheStorage') \subseteq keys(cacheStorage) \cup {CACHE_NAME}
       /\ lastSw'.op = "activate" =>
            cacheStorage'[OrdersCacheName].keys = cacheStorage[OrdersCacheName].keys]_vars

\* C37: once the worker is installed and activated the offline page is in the
\* cache, so a request that misses the cache while the network is unreachable
\* is answered with the offline page, also when the offline page itself was
\* never fetched through the listener.
C37_OfflinePageCached ==
    [][/\ lastSw'.op = "activate" =>
            match(cacheStorage', [method |-> "GET", url |-> OfflineUrl])
       /\ (lastSw'.op = "fetch" /\ lastSw'.net /\ ~lastSw'.netOk) =>
            lastSw'.resp = FromCache(OfflineUrl)]_vars

-----------------------------------------------------------------------------
(* Properties of the notification show asks of the worker *)

\* C38: the notification that show has the worker display carries the order's
\* id in its data, so the notificationclick listener's target for it is the
\* order-tracking page of that order, not the page without a parameter.
C38_ShownCarriesOrderId ==
    [][(cards' # cards /\ lastNotify'.agent = "shown") =>
          /\ lastNotify'.orderId \in OrderIds \ {"undefined"}
          /\ trackingUrl(lastNotify'.orderId) =
                "/customer/order-tracking.html?order=" \o lastNotify'.orderId]_vars

-----------------------------------------------------------------------------
(* Properties of a replay with a failing request *)

\* C39: in one run of syncOrders every queued request whose fetch would
\* succeed is fetched, wherever it stands relative to a request whose fetch
\* fails.
C39_FailureSkipsOnlyItself ==
    [][(lastSw'.op = "sync" /\ lastSync'.tag = "sync-orders") =>
          \A i \in 1..Len(lastSync'.requests) :
              lastSync'.requests[i] \notin lastSync'.failing =>
                  \E j \in 1..Len(lastSync'.fetched) :
                      lastSync'.fetched[j] = lastSync'.requests[i]]_vars

-----------------------------------------------------------------------------
(* Properties of eviction while a card is leaving *)

\* The cards of the queue whose dismissal has not started.
LiveCards == {n \in 1..Len(cards) : Queued(n) /\ n \notin hidden}

\* C40: show evicts a card that is not already being dismissed only when
\* maxNotifications such cards are in the queue besides the new one: a card
\* whose exit transition has started does not count toward the bound.
C40_EvictsOnlyWhenFullOfLiveCards ==
    [][(/\ lastOp'.op = "show"
        /\ Len(removalTimers') > Len(removalTimers)
        /\ Head(notificationQueue) \in LiveCards) =>
          Cardinality(LiveCards) >= maxNotifications]_vars

====
